---- MODULE Spec2Model ----
(***************************************************************************)
(* Model of offchain's metadata resolution pipeline:                       *)
(*   - offchain/concurrency.py: parallelize_with_threads, parmap,          *)
(*     batched_parmap (a thread pool per batch, results in input order);   *)
(*   - offchain/metadata/pipelines/metadata_pipeline.py:                   *)
(*     MetadataPipeline.fetch_token_metadata and MetadataPipeline.run.     *)
(* The fetcher, the parsers and the metadata selector are collaborators of *)
(* the pipeline; a token's uri carries what they do for that token.        *)
(***************************************************************************)
EXTENDS Naturals, Sequences, FiniteSets

\* ------------------------------------------------------------------ bounds
MaxTokens == 2      \* longest token list given to run
MaxItems == 4       \* longest item list given to parmap / batched_parmap
MaxBatch == 4       \* largest batch_size given to batched_parmap directly
MaxCpu == 1         \* largest multiprocessing.cpu_count()
MaxDefaultItems == 11   \* longest list given to batched_parmap without a batch_size
MaxLiveItems == 3       \* longest list when an invocation may never finish
MaxLiveBatch == 2       \* largest batch_size when an invocation may never finish
MaxFaultTokens == 1     \* longest token list given to run with faulty collaborators

\* ------------------------------------------------------- program constants
NumParsers == 2     \* len(DEFAULT_PARSER_CLASSES)
RunBatchSize == 15  \* the batch size run passes to batched_parmap
DefaultBatchSize == 10  \* batched_parmap's batch_size when the caller gives none

Min(a, b) == IF a <= b THEN a ELSE b

\* MAX_PROCS = (multiprocessing.cpu_count() * 2) + 1
MAX_PROCS(cpu_count) == (cpu_count * 2) + 1

\* ------------------------------------------------------------------ tokens
\* What a parser does with a token's content: "na" (should_parse_token is
\* False), "ok" (applicable, parse_metadata returns a Metadata), "fail"
\* (applicable, parse_metadata raises).
ParserBehaviours == {"na", "ok", "fail"}

Contents == [1..NumParsers -> ParserBehaviours]

NoContent == [p \in 1..NumParsers |-> "na"]

\* A uri either resolves to a content or cannot be fetched.
Uris ==
    {[reachable |-> FALSE, content |-> NoContent]}
        \cup {[reachable |-> TRUE, content |-> c] : c \in Contents}

Tokens == {[uri |-> u] : u \in Uris}

\* Tokens for collaborators that do not keep to their interface: a parser's
\* should_parse_token may raise ("check_raises").
FaultTokens ==
    Tokens \cup {[uri |-> [reachable |-> TRUE, content |-> c]] :
                    c \in [1..NumParsers -> ParserBehaviours \cup {"check_raises"}]}

NoToken == [uri |-> [reachable |-> FALSE, content |-> NoContent]]

\* The items the engine is exercised with on its own: two tokens that resolve
\* to different Metadata and one whose resolution raises.
EngineItems ==
    {[uri |-> [reachable |-> TRUE, content |-> [p \in 1..NumParsers |-> "ok"]]],
     [uri |-> [reachable |-> TRUE,
               content |-> [p \in 1..NumParsers |-> IF p = 1 THEN "na" ELSE "ok"]]],
     [uri |-> [reachable |-> FALSE, content |-> NoContent]]}

\* The items of the lists on which an invocation may never finish: one whose
\* resolution returns, one whose resolution raises.
LiveItems ==
    {[uri |-> [reachable |-> TRUE, content |-> [p \in 1..NumParsers |-> "ok"]]],
     [uri |-> [reachable |-> FALSE, content |-> NoContent]]}

\* The item of the long lists batched_parmap is given without a batch_size.
DefaultItem == [uri |-> [reachable |-> TRUE, content |-> [p \in 1..NumParsers |-> "ok"]]]

\* The metadata selectors a caller passes: none, or one that chooses among
\* the candidates it is given.
Selectors == {"None", "last", "prefer_metadata"}

\* The same, and a selector that raises.
FaultSelectors == Selectors \cup {"raises"}

\* ------------------------------------------------------------------ values
Metadata(token, p) ==
    [type |-> "Metadata", token |-> token, parser |-> p, error |-> "none"]

Exception(token, p, msg) ==
    [type |-> "Exception", token |-> token, parser |-> p, error |-> msg]

\* MetadataProcessingError.from_token_and_error(token=token, e=e)
FromTokenAndError(token, e) ==
    [type |-> "MetadataProcessingError", token |-> token,
     parser |-> e.parser, error |-> e.error]

NoValue == [type |-> "None", token |-> NoToken, parser |-> 0, error |-> "none"]

Returned(v, calls) == [raised |-> FALSE, value |-> v, calls |-> calls]

Raised(e, calls) == [raised |-> TRUE, value |-> e, calls |-> calls]

\* One entry of the record of calls a resolution makes to its collaborators.
Call(op, p, result, cands) ==
    [op |-> op, parser |-> p, result |-> result, cands |-> cands]

\* ----------------------------------------------------------- collaborators
\* fetcher.fetch_content(uri): the raw content, or a raised exception.
FetchContent(uri) ==
    IF uri.reachable
    THEN [raised |-> FALSE, raw |-> uri.content]
    ELSE [raised |-> TRUE, raw |-> NoContent]

\* parser.should_parse_token(token=token, raw_data=raw_data)
ShouldParseToken(p, token, raw_data) == raw_data[p] # "na"

\* parser.should_parse_token(token=token, raw_data=raw_data): TRUE when it raises.
ShouldParseTokenRaises(p, token, raw_data) == raw_data[p] = "check_raises"

\* parser.parse_metadata(token=token, raw_data=raw_data): TRUE when it raises.
ParseMetadataRaises(p, token, raw_data) == raw_data[p] = "fail"

\* metadata_selector_fn(possible_metadatas): the candidate it chooses.
RECURSIVE FirstMetadata(_, _)
FirstMetadata(cands, k) ==
    IF k > Len(cands) THEN 1
    ELSE IF cands[k].type = "Metadata" THEN k
    ELSE FirstMetadata(cands, k + 1)

SelectIndex(sel, cands) ==
    IF sel = "last" THEN Len(cands) ELSE FirstMetadata(cands, 1)

\* metadata_selector_fn(possible_metadatas): TRUE when it raises.
SelectorRaises(sel) == sel = "raises"

\* ------------------------------------------------- fetch_token_metadata
\* The try of lines 120-125 holds the parse_metadata call and nothing else.
TryCoversAll(op) == TRUE

TryCovers(op) == op = "parse_metadata"

\* if metadata_selector_fn is None: return metadata_or_error
EarlyReturnNever(metadata_selector_fn) == FALSE

EarlyReturnAlways(metadata_selector_fn) == TRUE

EarlyReturn(metadata_selector_fn) == metadata_selector_fn = "None"

\* if len(possible_metadatas) == 0: append the "No parsers found." error
NoParsersFoundNever(possible_metadatas) == FALSE

NoParsersFound(possible_metadatas) == Len(possible_metadatas) = 0

\* return possible_metadatas[0]
DefaultCandidateLast(possible_metadatas) == possible_metadatas[Len(possible_metadatas)]

DefaultCandidate(possible_metadatas) == possible_metadatas[1]

\* Lines 127-134: what follows the loop over the parsers. Indexing or
\* choosing in an empty list raises IndexError.
AfterParsers(token, sel, cands0, calls) ==
    LET cands ==
            IF NoParsersFound(cands0)
            THEN Append(cands0,
                        FromTokenAndError(token, Exception(token, 0, "No parsers found.")))
            ELSE cands0
        empty == Exception(token, 0, "list index out of range")
        failed == Exception(token, 0, "metadata_selector_fn failed")
    IN  IF sel # "None"
        THEN IF SelectorRaises(sel)
             THEN IF TryCovers("metadata_selector_fn")
                  THEN Returned(FromTokenAndError(token, failed),
                                Append(calls, Call("metadata_selector_fn", 0, "raised", cands)))
                  ELSE Raised(failed,
                              Append(calls, Call("metadata_selector_fn", 0, "raised", cands)))
             ELSE IF Len(cands) = 0
             THEN Raised(empty, Append(calls, Call("metadata_selector_fn", 0, "raised", cands)))
             ELSE Returned(cands[SelectIndex(sel, cands)],
                           Append(calls, Call("metadata_selector_fn", 0, "returned", cands)))
        ELSE IF Len(cands) = 0 THEN Raised(empty, calls)
             ELSE Returned(DefaultCandidate(cands), calls)

\* Lines 124-125: the except branch builds the error from the exception; the
\* raw_data fetched at line 116 stays.
ExceptCallsRefetch(calls, p) ==
    Append(Append(calls, Call("parse_metadata", p, "raised", <<>>)),
           Call("fetch_content", 0, "returned", <<>>))

ExceptCalls(calls, p) == Append(calls, Call("parse_metadata", p, "raised", <<>>))

\* Lines 118-126: the loop over self.parsers, from parser p on.
RECURSIVE ParserLoop(_, _, _, _, _, _)
ParserLoop(token, raw_data, sel, p, cands, calls) ==
    IF p > NumParsers THEN AfterParsers(token, sel, cands, calls)
    ELSE IF ShouldParseTokenRaises(p, token, raw_data)
    THEN LET e == Exception(token, p, "should_parse_token failed")
             calls1 == Append(calls, Call("should_parse_token", p, "raised", <<>>))
         IN  IF TryCovers("should_parse_token")
             THEN ParserLoop(token, raw_data, sel, p + 1,
                             Append(cands, FromTokenAndError(token, e)), calls1)
             ELSE Raised(e, calls1)
    ELSE IF ShouldParseToken(p, token, raw_data)
    THEN LET calls1 == Append(calls, Call("should_parse_token", p, "true", <<>>))
         IN  IF ParseMetadataRaises(p, token, raw_data)
             THEN LET e == Exception(token, p, "parse_metadata failed")
                  IN  IF TryCovers("parse_metadata")
                      THEN ParserLoop(token, raw_data, sel, p + 1,
                                      Append(cands, FromTokenAndError(token, e)),
                                      ExceptCalls(calls1, p))
                      ELSE Raised(e, Append(calls1,
                                            Call("parse_metadata", p, "raised", <<>>)))
             ELSE IF EarlyReturn(sel)
             THEN Returned(Metadata(token, p),
                           Append(calls1, Call("parse_metadata", p, "returned", <<>>)))
             ELSE ParserLoop(token, raw_data, sel, p + 1,
                             Append(cands, Metadata(token, p)),
                             Append(calls1, Call("parse_metadata", p, "returned", <<>>)))
    ELSE ParserLoop(token, raw_data, sel, p + 1, cands,
                    Append(calls, Call("should_parse_token", p, "false", <<>>)))

\* fetch_token_metadata(token, metadata_selector_fn): what it returns or
\* raises, and the calls it made.
FetchTokenMetadata(token, sel) ==
    LET fetched == FetchContent(token.uri)
        calls == <<Call("fetch_content", 0,
                        IF fetched.raised THEN "raised" ELSE "returned", <<>>)>>
        e == Exception(token, 0, "fetch_content failed")
    IN  IF fetched.raised
        THEN IF TryCovers("fetch_content")
             THEN Returned(FromTokenAndError(token, e), calls)
             ELSE Raised(e, calls)
        ELSE ParserLoop(token, fetched.raw, sel, 1, <<>>, calls)

\* ------------------------------------------------------------------ engine
\* ThreadPoolExecutor(max_workers=min(n_tasks, MAX_PROCS))
PoolMaxWorkersUncapped(n_tasks, max_procs) == n_tasks

PoolMaxWorkers(n_tasks, max_procs) == Min(n_tasks, max_procs)

\* map(lambda i: lambda: fn(i), args): the argument task j is bound to.
TaskArg(args, j) == args[j]

\* Neither parallelize_with_threads, parmap nor batched_parmap catches: the
\* exception f.result() raised goes on to the caller.
PropagatesNever(e) == FALSE

Propagates(e) == e # NoValue

\* Leaving the with block: ThreadPoolExecutor.__exit__ is shutdown(wait=True).
PoolExitNoWait(futures) == TRUE

PoolExitReady(futures) == \A j \in 1..Len(futures) : futures[j].st = "done"

\* for i in range(0, len(args), batch_size): whether the loop has a batch at i.
LoopContinuesInclusive(i, n) == i <= n

LoopContinues(i, n) == i < n

\* batch = args[i:i + batch_size]
BatchOverlapping(args, i, size) == SubSeq(args, i + 1, Min(i + size + 1, Len(args)))

BatchUnbounded(args, i, size) == SubSeq(args, i + 1, Len(args))

Batch(args, i, size) == SubSeq(args, i + 1, Min(i + size, Len(args)))

\* ------------------------------------------------------------------- run
\* Lines 157-163: the path run takes.
RunPathUnguardedParmap(tokens, par) == IF par THEN "parmap" ELSE "map"

RunPathAlwaysBatched(tokens, par) ==
    IF Len(tokens) = 0 THEN "return_empty" ELSE "batched_parmap"

RunPath(tokens, par) ==
    IF Len(tokens) = 0 THEN "return_empty"
    ELSE IF par THEN "batched_parmap"
    ELSE "map"

\* ------------------------------------------------------------------- state
VARIABLES
    entry,        \* the function the caller calls: run, parmap, batched_parmap
    items,        \* its list argument (tokens / args)
    parallelize,  \* run's parallelize
    selector,     \* run's select_metadata_fn
    batch_size,   \* batched_parmap's batch_size (0: not batched)
    cpu_count,    \* multiprocessing.cpu_count()
    stalled,      \* the item on which fn never returns (0: fn always returns)
    pc,           \* where the calling thread is
    frame,        \* who called parmap: the caller ("parmap") or batched_parmap
    i,            \* batched_parmap's loop variable
    futures,      \* the futures of the pool in use, in submission order
    max_workers,  \* the pool's max_workers
    k,            \* the future (or token, in map) the calling thread is at
    res,          \* parallelize_with_threads' res
    results,      \* batched_parmap's results / map's list
    ret,          \* what the call returned
    exc,          \* the exception in flight, or raised to the caller
    inv,          \* per item: the invocations of fn on it
    pools,        \* the number of thread pools created
    batches       \* the lists parmap was called with: where each starts, its size

vars ==
    <<entry, items, parallelize, selector, batch_size, cpu_count, stalled, pc, frame,
      i, futures, max_workers, k, res, results, ret, exc, inv, pools, batches>>

inputs == <<entry, items, parallelize, selector, batch_size, cpu_count, stalled>>

SeqsUpTo(S, n) == UNION {[1..m -> S] : m \in 0..n}

NoResult == [raised |-> FALSE, value |-> NoValue, calls |-> <<>>]

NoInvocation == [n |-> 0, arg |-> NoToken, fin |-> 0, result |-> NoResult]

Running(fs) == {j \in 1..Len(fs) : fs[j].st = "running"}

InFlight == Cardinality(Running(futures))

\* Nothing has run yet.
InitCall ==
    /\ pc = "call"
    /\ frame = "none"
    /\ i = 0
    /\ futures = <<>>
    /\ max_workers = 0
    /\ k = 0
    /\ res = <<>>
    /\ results = <<>>
    /\ ret = <<>>
    /\ exc = NoValue
    /\ inv = [j \in 1..Len(items) |-> NoInvocation]
    /\ pools = 0
    /\ batches = <<>>

\* The caller calls run, parmap, batched_parmap with a batch_size, or
\* batched_parmap without one ("batched_parmap_default": batch_size is 0 until
\* the call binds the default).
Init ==
    /\ entry \in {"run", "parmap", "batched_parmap", "batched_parmap_default"}
    /\ items \in IF entry = "run" THEN SeqsUpTo(Tokens, MaxTokens)
                 ELSE IF entry = "batched_parmap_default"
                 THEN {[j \in 1..m |-> DefaultItem] : m \in 0..MaxDefaultItems}
                 ELSE SeqsUpTo(EngineItems, MaxItems)
    /\ parallelize \in IF entry = "run" THEN BOOLEAN ELSE {TRUE}
    /\ selector \in IF entry = "run" THEN Selectors ELSE {"None"}
    /\ batch_size \in IF entry = "run" THEN {RunBatchSize}
                      ELSE IF entry \in {"parmap", "batched_parmap_default"} THEN {0}
                      ELSE 1..MaxBatch
    /\ cpu_count \in 1..MaxCpu
    /\ stalled = 0
    /\ InitCall

\* parallelize_with_threads, lines 20-23: the pool is created and every
\* callable submitted; with max_workers <= 0 the constructor raises ValueError.
Submit(batch, base) ==
    /\ batches' = Append(batches, [start |-> base, size |-> Len(batch)])
    /\ IF PoolMaxWorkers(Len(batch), MAX_PROCS(cpu_count)) <= 0
       THEN /\ pc' = "raised"
            /\ exc' = Exception(NoToken, 0, "max_workers must be greater than 0")
            /\ UNCHANGED <<futures, max_workers, k, res, pools>>
       ELSE /\ pc' = "collect"
            /\ futures' = [j \in 1..Len(batch) |->
                               [item |-> base + j, arg |-> TaskArg(batch, j),
                                st |-> "queued", result |-> NoResult]]
            /\ max_workers' = PoolMaxWorkers(Len(batch), MAX_PROCS(cpu_count))
            /\ k' = 1
            /\ res' = <<>>
            /\ pools' = pools + 1
            /\ UNCHANGED exc

\* run(tokens, parallelize, select_metadata_fn), lines 157-163.
RunCall ==
    /\ entry = "run"
    /\ pc = "call"
    /\ LET path == RunPath(items, parallelize)
       IN  /\ pc' = IF path = "return_empty" THEN "returned"
                    ELSE IF path = "batched_parmap" THEN "loop"
                    ELSE path
           /\ frame' = IF path = "map" THEN "none" ELSE path
           /\ k' = IF path = "map" THEN 1 ELSE k
    /\ UNCHANGED <<inputs, i, futures, max_workers, res, results, ret, exc, inv, pools, batches>>

\* batched_parmap(fn, args, batch_size=10), lines 45-46.
BatchedParmapCall ==
    /\ entry \in {"batched_parmap", "batched_parmap_default"}
    /\ pc = "call"
    /\ pc' = "loop"
    /\ frame' = "batched_parmap"
    /\ batch_size' = IF entry = "batched_parmap_default" THEN DefaultBatchSize
                     ELSE batch_size
    /\ UNCHANGED <<entry, items, parallelize, selector, cpu_count, stalled, i, futures,
                   max_workers, k, res, results, ret, exc, inv, pools, batches>>

\* parmap(fn, args), line 42, called on the whole list.
ParmapCall ==
    /\ \/ entry = "parmap" /\ pc = "call"
       \/ pc = "parmap"
    /\ frame' = "parmap"
    /\ Submit(items, 0)
    /\ UNCHANGED <<inputs, i, results, ret, inv>>

\* batched_parmap, lines 47-50 and 52: the next batch goes to parmap, or the
\* loop is over and results is returned.
LoopIter ==
    /\ pc = "loop"
    /\ IF LoopContinues(i, Len(items))
       THEN /\ Submit(Batch(items, i, batch_size), i)
            /\ UNCHANGED ret
       ELSE /\ pc' = "returned"
            /\ ret' = results
            /\ UNCHANGED <<futures, max_workers, k, res, exc, pools, batches>>
    /\ UNCHANGED <<inputs, frame, i, results, inv>>

\* A worker thread of the pool takes the next queued callable and calls it.
WorkerStart(j) ==
    /\ frame # "none"
    /\ j \in 1..Len(futures)
    /\ futures[j].st = "queued"
    /\ \A h \in 1..(j - 1) : futures[h].st # "queued"
    /\ InFlight < max_workers
    /\ futures' = [futures EXCEPT ![j].st = "running"]
    /\ inv' = [inv EXCEPT ![futures[j].item].n = @ + 1,
                          ![futures[j].item].arg = futures[j].arg]
    /\ UNCHANGED <<inputs, pc, frame, i, max_workers, k, res, results, ret, exc, pools, batches>>

\* The callable returns or raises: lambda: fn(i), with fn run's lambda
\* t: self.fetch_token_metadata(t, select_metadata_fn).
WorkerFinish(j) ==
    /\ frame # "none"
    /\ j \in 1..Len(futures)
    /\ futures[j].st = "running"
    /\ futures[j].item # stalled
    /\ LET r == FetchTokenMetadata(futures[j].arg, selector)
       IN  /\ futures' = [futures EXCEPT ![j].st = "done", ![j].result = r]
           /\ inv' = [inv EXCEPT ![futures[j].item].fin = @ + 1,
                                 ![futures[j].item].result = r]
    /\ UNCHANGED <<inputs, pc, frame, i, max_workers, k, res, results, ret, exc, pools, batches>>

\* res = [f.result() for f in futures], line 24: one f.result().
Collect ==
    /\ pc = "collect"
    /\ k <= Len(futures)
    /\ futures[k].st = "done"
    /\ IF futures[k].result.raised
       THEN /\ exc' = futures[k].result.value
            /\ pc' = "exit"
            /\ UNCHANGED <<k, res>>
       ELSE /\ res' = Append(res, futures[k].result.value)
            /\ k' = k + 1
            /\ pc' = IF k = Len(futures) THEN "exit" ELSE "collect"
            /\ UNCHANGED exc
    /\ UNCHANGED <<inputs, frame, i, futures, max_workers, results, ret, inv, pools, batches>>

\* The with block is left (line 22's __exit__), then line 25 returns res or
\* the exception goes on to the caller; batched_parmap extends results with
\* what parmap returned (line 51) and loops.
PoolExit ==
    /\ pc = "exit"
    /\ PoolExitReady(futures)
    /\ IF Propagates(exc)
       THEN /\ pc' = "raised"
            /\ UNCHANGED <<i, results, ret>>
       ELSE IF frame = "batched_parmap"
       THEN /\ pc' = "loop"
            /\ results' = results \o res
            /\ i' = i + batch_size
            /\ UNCHANGED ret
       ELSE /\ pc' = "returned"
            /\ ret' = res
            /\ UNCHANGED <<i, results>>
    /\ UNCHANGED <<inputs, frame, futures, max_workers, k, res, exc, inv, pools, batches>>

\* list(map(lambda t: self.fetch_token_metadata(t, select_metadata_fn), tokens)),
\* line 163: the calling thread starts the resolution of the next token, or
\* the list is complete and run returns it.
MapStart ==
    /\ pc = "map"
    /\ IF k <= Len(items)
       THEN /\ futures' = <<[item |-> k, arg |-> items[k], st |-> "running",
                             result |-> NoResult]>>
            /\ inv' = [inv EXCEPT ![k].n = @ + 1, ![k].arg = items[k]]
            /\ pc' = "map_call"
            /\ UNCHANGED ret
       ELSE /\ pc' = "returned"
            /\ ret' = results
            /\ UNCHANGED <<futures, inv>>
    /\ UNCHANGED <<inputs, frame, i, max_workers, k, res, results, exc, pools, batches>>

\* The resolution of the token returns (its outcome joins the list) or raises.
MapFinish ==
    /\ pc = "map_call"
    /\ k # stalled
    /\ LET r == FetchTokenMetadata(futures[1].arg, selector)
       IN  /\ futures' = [futures EXCEPT ![1].st = "done", ![1].result = r]
           /\ inv' = [inv EXCEPT ![k].fin = @ + 1, ![k].result = r]
           /\ IF r.raised
              THEN /\ pc' = "raised"
                   /\ exc' = r.value
                   /\ UNCHANGED <<k, results>>
              ELSE /\ pc' = "map"
                   /\ results' = Append(results, r.value)
                   /\ k' = k + 1
                   /\ UNCHANGED exc
    /\ UNCHANGED <<inputs, frame, i, max_workers, res, ret, pools, batches>>

Next ==
    \/ RunCall
    \/ BatchedParmapCall
    \/ ParmapCall
    \/ LoopIter
    \/ \E j \in 1..Len(futures) : WorkerStart(j)
    \/ \E j \in 1..Len(futures) : WorkerFinish(j)
    \/ Collect
    \/ PoolExit
    \/ MapStart
    \/ MapFinish

Spec == Init /\ [][Next]_vars

\* The same calls, with fn possibly never returning on one item ("stalled"),
\* and the threads scheduled fairly: the calling thread takes its next step
\* when it can, and so does the worker thread of each callable.
InitLive ==
    /\ entry \in {"run", "parmap", "batched_parmap"}
    /\ items \in SeqsUpTo(LiveItems, MaxLiveItems)
    /\ parallelize \in IF entry = "run" THEN BOOLEAN ELSE {TRUE}
    /\ selector = "None"
    /\ batch_size \in IF entry = "run" THEN {RunBatchSize}
                      ELSE IF entry = "parmap" THEN {0}
                      ELSE 1..MaxLiveBatch
    /\ cpu_count \in 1..MaxCpu
    /\ stalled \in 0..Len(items)
    /\ InitCall

CallerStep ==
    \/ RunCall
    \/ BatchedParmapCall
    \/ ParmapCall
    \/ LoopIter
    \/ Collect
    \/ PoolExit
    \/ MapStart
    \/ MapFinish

WorkerStep(j) == WorkerStart(j) \/ WorkerFinish(j)

LiveSpec ==
    /\ InitLive
    /\ [][Next]_vars
    /\ WF_vars(CallerStep)
    /\ \A j \in 1..MaxLiveItems : WF_vars(WorkerStep(j))

\* run with collaborators that do not keep to their interface.
InitFaults ==
    /\ entry = "run"
    /\ items \in SeqsUpTo(FaultTokens, MaxFaultTokens)
    /\ parallelize \in BOOLEAN
    /\ selector \in FaultSelectors
    /\ batch_size = RunBatchSize
    /\ cpu_count \in 1..MaxCpu
    /\ stalled = 0
    /\ InitCall

NextRun ==
    \/ RunCall
    \/ LoopIter
    \/ \E j \in 1..Len(futures) : WorkerStart(j)
    \/ \E j \in 1..Len(futures) : WorkerFinish(j)
    \/ Collect
    \/ PoolExit
    \/ MapStart
    \/ MapFinish

SpecFaults == InitFaults /\ [][NextRun]_vars

\* ------------------------------------------------------------- properties
Finished == pc \in {"returned", "raised"}

\* The items whose resolution has run to its end.
Resolved == {j \in 1..Len(inv) : inv[j].fin > 0}

CallsOf(j) == inv[j].result.calls

ParseCalls(j, p) ==
    {c \in 1..Len(CallsOf(j)) :
        CallsOf(j)[c].op = "parse_metadata" /\ CallsOf(j)[c].parser = p}

CheckCalls(j, p) ==
    {c \in 1..Len(CallsOf(j)) :
        CallsOf(j)[c].op = "should_parse_token" /\ CallsOf(j)[c].parser = p}

InterpreterCalls(j) ==
    {c \in 1..Len(CallsOf(j)) :
        CallsOf(j)[c].op \in {"should_parse_token", "parse_metadata"}}

SelectorCalls(j) ==
    {c \in 1..Len(CallsOf(j)) : CallsOf(j)[c].op = "metadata_selector_fn"}

RetrievalFailed(j) == ~inv[j].arg.uri.reachable

Applicable(token) == {p \in 1..NumParsers : token.uri.content[p] # "na"}

IsProcessingError(v, token, msg) ==
    /\ v.type = "MetadataProcessingError"
    /\ v.token = token
    /\ v.error = msg

\* C1: run returns exactly N outcomes for N tokens, outcome i being the
\* outcome of resolving token i, for every list and either parallelize.
C1_RunReturnsOneOutcomePerToken ==
    (entry = "run" /\ Finished) =>
        /\ pc = "returned"
        /\ Len(ret) = Len(items)
        /\ \A j \in 1..Len(items) :
            /\ inv[j].arg = items[j]
            /\ ~inv[j].result.raised
            /\ ret[j] = inv[j].result.value
            /\ ret[j].token = items[j]
            /\ ret[j].type \in {"Metadata", "MetadataProcessingError"}

\* C2: no token's retrieval failure, interpretation failure or lack of an
\* applicable interpreter leaves run as a thrown fault.
C2_RunNeverRaises == entry = "run" => pc # "raised"

\* C3: when the fetch of a token's uri fails, the resolution of the token
\* ends with a MetadataProcessingError for the retrieval failure as its
\* outcome, and no parser is asked or called.
C3_RetrievalFailureIsAnOutcome ==
    \A j \in Resolved :
        RetrievalFailed(j) =>
            /\ ~inv[j].result.raised
            /\ IsProcessingError(inv[j].result.value, inv[j].arg, "fetch_content failed")
            /\ InterpreterCalls(j) = {}

\* C4: without a selector, a parse_metadata that succeeds ends the
\* resolution: its Metadata is the outcome and no later parser is asked or
\* called.
C4_ShortCircuitOnFirstSuccess ==
    \A j \in Resolved :
        selector = "None" =>
            \A c \in 1..Len(CallsOf(j)) :
                (CallsOf(j)[c].op = "parse_metadata" /\ CallsOf(j)[c].result = "returned") =>
                    /\ c = Len(CallsOf(j))
                    /\ ~inv[j].result.raised
                    /\ inv[j].result.value = Metadata(inv[j].arg, CallsOf(j)[c].parser)
                    /\ \A d \in 1..Len(CallsOf(j)) :
                        CallsOf(j)[d].parser <= CallsOf(j)[c].parser

\* A token whose first parser succeeds and whose second parser is applicable
\* too has been resolved without a selector.
C4_Witness ==
    \E j \in Resolved :
        /\ selector = "None"
        /\ inv[j].arg.uri.reachable
        /\ inv[j].arg.uri.content[1] = "ok"
        /\ inv[j].arg.uri.content[2] # "na"
        /\ inv[j].result.value = Metadata(inv[j].arg, 1)

\* One candidate per applicable parser, in chain order: the Metadata of a
\* parser that succeeds, the MetadataProcessingError of one that fails.
CandidateOf(token, p) ==
    IF token.uri.content[p] = "ok" THEN Metadata(token, p)
    ELSE [type |-> "MetadataProcessingError", token |-> token, parser |-> p,
          error |-> "parse_metadata failed"]

CandidatesPerApplicable(token) ==
    LET chain == [p \in 1..NumParsers |-> p]
        IsApplicable(p) == p \in Applicable(token)
        applicable == SelectSeq(chain, IsApplicable)
    IN  [n \in 1..Len(applicable) |-> CandidateOf(token, applicable[n])]

NoParsersCandidate(token) ==
    [type |-> "MetadataProcessingError", token |-> token, parser |-> 0,
     error |-> "No parsers found."]

\* With a selector and a successful fetch: every applicable parser is called
\* once, whatever the earlier ones did, and the selector is called once, last,
\* with `cands`, and what it returns is the outcome.
ExhaustiveThenSelect(j, cands) ==
    /\ \A p \in 1..NumParsers :
        /\ Cardinality(CheckCalls(j, p)) = 1
        /\ Cardinality(ParseCalls(j, p)) = IF p \in Applicable(inv[j].arg) THEN 1 ELSE 0
    /\ SelectorCalls(j) = {Len(CallsOf(j))}
    /\ CallsOf(j)[Len(CallsOf(j))].cands = cands
    /\ ~inv[j].result.raised
    /\ inv[j].result.value = cands[SelectIndex(selector, cands)]

\* C5 (as stated): the selector gets one candidate per applicable parser.
C5_SelectorGetsOneCandidatePerApplicable ==
    \A j \in Resolved :
        (selector # "None" /\ ~RetrievalFailed(j)) =>
            ExhaustiveThenSelect(j, CandidatesPerApplicable(inv[j].arg))

\* C5 (amended): the selector gets one candidate per applicable parser when
\* there is one, and the single "No parsers found." error when there is none.
C5_SelectorGetsAllCandidates ==
    \A j \in Resolved :
        (selector # "None" /\ ~RetrievalFailed(j)) =>
            ExhaustiveThenSelect(
                j,
                IF Applicable(inv[j].arg) = {}
                THEN <<NoParsersCandidate(inv[j].arg)>>
                ELSE CandidatesPerApplicable(inv[j].arg))

\* A token whose two parsers are applicable, the first succeeding and the
\* second failing, has been resolved with a selector.
C5_Witness ==
    \E j \in Resolved :
        /\ selector # "None"
        /\ inv[j].arg.uri.reachable
        /\ inv[j].arg.uri.content[1] = "ok"
        /\ inv[j].arg.uri.content[2] = "fail"
        /\ Len(CallsOf(j)[Len(CallsOf(j))].cands) = 2

\* C6: a token that is fetched and that no parser claims resolves, with or
\* without a selector, to the single "No parsers found." error, and
\* parse_metadata is never called.
C6_NoApplicableParser ==
    \A j \in Resolved :
        (~RetrievalFailed(j) /\ Applicable(inv[j].arg) = {}) =>
            /\ ~inv[j].result.raised
            /\ inv[j].result.value = NoParsersCandidate(inv[j].arg)
            /\ \A p \in 1..NumParsers : ParseCalls(j, p) = {}

\* A token no parser claims has been resolved by a run with a selector.
C6_Witness ==
    \E j \in Resolved :
        /\ entry = "run"
        /\ selector # "None"
        /\ inv[j].arg.uri.reachable
        /\ Applicable(inv[j].arg) = {}

\* C7: run on an empty list returns an empty list and dispatches nothing:
\* no pool, no future, no resolution, whatever parallelize is.
C7_EmptyRunDispatchesNothing ==
    (entry = "run" /\ Len(items) = 0) =>
        /\ pc \in {"call", "returned"}
        /\ pools = 0
        /\ futures = <<>>
        /\ ret = <<>>

\* run has returned from a call with parallelize on an empty list.
C7_Witness ==
    /\ entry = "run"
    /\ Len(items) = 0
    /\ parallelize
    /\ pc = "returned"

\* C8: parmap calls fn once per item, each call on its own item, and, when
\* no call raises, returns the list of fn(item) in input order.
C8_ParmapIsMap ==
    (entry = "parmap" /\ Finished) =>
        /\ \A j \in 1..Len(items) :
            /\ inv[j].n = 1
            /\ inv[j].arg = items[j]
        /\ (\A j \in 1..Len(items) : ~FetchTokenMetadata(items[j], selector).raised) =>
            /\ pc = "returned"
            /\ ret = [j \in 1..Len(items) |-> FetchTokenMetadata(items[j], selector).value]

\* C9: in batched_parmap the calls of fn in flight never exceed
\* min(batch_size, MAX_PROCS).
C9_InFlightBounded ==
    frame = "batched_parmap" =>
        InFlight <= Min(batch_size, MAX_PROCS(cpu_count))

\* Every worker of a pool is busy and the batch holds more items than
\* MAX_PROCS.
C9_Witness ==
    /\ frame = "batched_parmap"
    /\ InFlight = MAX_PROCS(cpu_count)
    /\ batch_size > MAX_PROCS(cpu_count)
    /\ Len(futures) > MAX_PROCS(cpu_count)

\* C10: parmap gives control back (to its caller or to batched_parmap's
\* loop) only when every callable it submitted is over, and once a callable
\* has raised, the call ends with that exception and returns no list.
C10_BlocksAndPropagates ==
    frame \in {"parmap", "batched_parmap"} =>
        /\ (Finished \/ pc = "loop") =>
            \A j \in 1..Len(futures) : futures[j].st = "done"
        /\ \A j \in 1..Len(futures) :
            (futures[j].st = "done" /\ futures[j].result.raised) =>
                /\ pc # "returned"
                /\ pc # "loop"
                /\ ret = <<>>
                /\ Finished =>
                    /\ exc.type = "Exception"
                    /\ \E h \in 1..j : exc = futures[h].result.value
                                       /\ futures[h].result.raised

\* batched_parmap has ended with the exception of a callable of a later
\* batch, after an earlier batch gave its results.
C10_Witness ==
    /\ frame = "batched_parmap"
    /\ pc = "raised"
    /\ Len(results) > 0
    /\ \E j \in 1..Len(futures) : futures[j].result.raised
    /\ \E j \in 1..Len(futures) : futures[j].st = "done" /\ ~futures[j].result.raised

\* The parsers that are applicable to the token and whose parse_metadata
\* succeeds.
Succeeding(token) == {p \in 1..NumParsers : token.uri.content[p] = "ok"}

Lowest(S) == CHOOSE p \in S : \A q \in S : p <= q

\* C11: without a selector and with the content fetched, the outcome is the
\* Metadata of the first parser of the chain that is applicable and succeeds;
\* when some parser is applicable and all the applicable ones fail, it is
\* the error of the first applicable parser.
C11_FirstSuccessElseFirstFailure ==
    \A j \in Resolved :
        (selector = "None" /\ ~RetrievalFailed(j) /\ Applicable(inv[j].arg) # {}) =>
            /\ ~inv[j].result.raised
            /\ inv[j].result.value =
                IF Succeeding(inv[j].arg) # {}
                THEN Metadata(inv[j].arg, Lowest(Succeeding(inv[j].arg)))
                ELSE CandidateOf(inv[j].arg, Lowest(Applicable(inv[j].arg)))

\* Without a selector, one token has resolved to the Metadata of its second
\* parser after its first failed, and another, whose two parsers fail, to
\* the error of its first parser.
C11_Witness ==
    /\ selector = "None"
    /\ \E j \in Resolved :
        /\ inv[j].arg.uri.reachable
        /\ inv[j].arg.uri.content = <<"fail", "ok">>
        /\ inv[j].result.value = Metadata(inv[j].arg, 2)
    /\ \E j \in Resolved :
        /\ inv[j].arg.uri.reachable
        /\ inv[j].arg.uri.content = <<"fail", "fail">>
        /\ inv[j].result.value.type = "MetadataProcessingError"
        /\ inv[j].result.value.parser = 1

\* The batch item j belongs to in the partition of the list into contiguous
\* batches of batch_size items.
BatchOf(j) == (j - 1) \div batch_size

SequentialMap == [j \in 1..Len(items) |-> FetchTokenMetadata(items[j], selector).value]

\* C12: batched_parmap cuts the list into contiguous batches of batch_size
\* items, the last one holding what is left, every item in exactly one
\* batch; parmap is called once per batch and the results, concatenated, are
\* the sequential map of fn over the list.
C12_ContiguousBatches ==
    frame = "batched_parmap" =>
        /\ \A b \in 1..Len(batches) :
            /\ batches[b].start = (b - 1) * batch_size
            /\ batches[b].size = Min(batch_size, Len(items) - batches[b].start)
        /\ \A j \in 1..Len(items) :
            LET holding == {b \in 1..Len(batches) :
                               /\ batches[b].start < j
                               /\ j <= batches[b].start + batches[b].size}
            IN  /\ holding \subseteq {BatchOf(j) + 1}
                /\ pc = "returned" => holding = {BatchOf(j) + 1}
        /\ pools = Len(batches)
        /\ pc = "returned" => ret = SequentialMap

\* batched_parmap has returned after several batches, the last one smaller
\* than batch_size.
C12_Witness ==
    /\ entry = "batched_parmap"
    /\ pc = "returned"
    /\ Len(batches) >= 2
    /\ batches[Len(batches)].size < batch_size
    /\ Len(ret) = Len(items)

\* C13: no call of fn on an item of a later batch starts before the calls on
\* every item of the earlier batches are over, and the calls in flight are
\* all of one batch.
C13_BatchesAreSequential ==
    frame = "batched_parmap" =>
        /\ \A j, h \in 1..Len(items) :
            (BatchOf(j) < BatchOf(h) /\ inv[h].n > 0) => inv[j].fin > 0
        /\ \A a, b \in Running(futures) :
            BatchOf(futures[a].item) = BatchOf(futures[b].item)

\* Two calls of the second batch are in flight.
C13_Witness ==
    /\ frame = "batched_parmap"
    /\ InFlight >= 2
    /\ \E a \in Running(futures) : BatchOf(futures[a].item) = 1

FetchCalls(j) ==
    {c \in 1..Len(CallsOf(j)) : CallsOf(j)[c].op = "fetch_content"}

\* C14: in one run, fetch_content is called at most once per token of the
\* list, whatever the parsers do and whether or not a selector is given.
C14_FetchedAtMostOnce ==
    entry = "run" =>
        \A j \in 1..Len(items) :
            /\ inv[j].n <= 1
            /\ inv[j].fin <= inv[j].n
            /\ Cardinality(FetchCalls(j)) = IF j \in Resolved THEN 1 ELSE 0

\* A run with a selector has resolved a token whose two parsers both fail.
C14_Witness ==
    /\ entry = "run"
    /\ selector # "None"
    /\ \E j \in Resolved :
        /\ inv[j].arg.uri.reachable
        /\ inv[j].arg.uri.content = <<"fail", "fail">>

\* C16: with parallelize false, run resolves the tokens one at a time in the
\* order of the list, with the same resolution: no pool, at most one
\* resolution in flight, and token j+1 not started before token j is over.
C16_SequentialRun ==
    (entry = "run" /\ ~parallelize) =>
        /\ pools = 0
        /\ InFlight <= 1
        /\ \A j, h \in 1..Len(items) :
            (j < h /\ inv[h].n > 0) => inv[j].fin > 0
        /\ \A j \in Resolved :
            /\ inv[j].arg = items[j]
            /\ inv[j].result = FetchTokenMetadata(items[j], selector)
        /\ pc = "returned" => ret = SequentialMap

\* The resolution of the second token is in flight in a sequential run.
C16_Witness ==
    /\ entry = "run"
    /\ ~parallelize
    /\ pc = "map_call"
    /\ k = 2
    /\ InFlight = 1

\* C18: the exception of a callable reaches the caller of parmap only when
\* every callable submitted with it has run to its end (none is cancelled),
\* and no callable of a later batch is ever started.
C18_DrainedBeforeRaise ==
    /\ (frame \in {"parmap", "batched_parmap"} /\ pc = "raised") =>
        \A j \in 1..Len(futures) :
            /\ futures[j].st = "done"
            /\ inv[futures[j].item].n = 1
            /\ inv[futures[j].item].fin = 1
    /\ frame = "batched_parmap" =>
        \A j \in Resolved :
            inv[j].result.raised =>
                \A h \in 1..Len(items) : BatchOf(h) > BatchOf(j) => inv[h].n = 0

\* batched_parmap has raised the exception of the first callable of a batch
\* of several, with items left for a later batch.
C18_Witness ==
    /\ frame = "batched_parmap"
    /\ pc = "raised"
    /\ Len(futures) >= 2
    /\ futures[1].result.raised
    /\ Len(items) > i + batch_size

\* C20: every list batched_parmap gives to parmap holds at least one item,
\* so no pool is created with max_workers 0; for an empty list parmap is not
\* called and the empty list is returned.
C20_NoEmptyBatch ==
    frame = "batched_parmap" =>
        /\ \A b \in 1..Len(batches) : batches[b].size >= 1
        /\ exc.error # "max_workers must be greater than 0"
        /\ pools = Len(batches)
        /\ Len(items) = 0 =>
            /\ batches = <<>>
            /\ Finished => (pc = "returned" /\ ret = <<>>)

\* batched_parmap has returned from a list of exactly two full batches.
C20_Witness ==
    /\ entry = "batched_parmap"
    /\ pc = "returned"
    /\ Len(items) = 2 * batch_size
    /\ Len(batches) = 2

\* C15 (as stated): batched_parmap called without a batch_size works with
\* batches of 15 items.
C15_DefaultBatchSizeIs15 ==
    (entry = "batched_parmap_default" /\ frame = "batched_parmap") =>
        /\ batch_size = 15
        /\ \A b \in 1..Len(batches) :
            /\ batches[b].start = (b - 1) * 15
            /\ batches[b].size = Min(15, Len(items) - batches[b].start)

\* C15 (amended): batched_parmap called without a batch_size works with
\* batches of 10 items.
C15_DefaultBatchSizeIs10 ==
    (entry = "batched_parmap_default" /\ frame = "batched_parmap") =>
        /\ batch_size = 10
        /\ \A b \in 1..Len(batches) :
            /\ batches[b].start = (b - 1) * 10
            /\ batches[b].size = Min(10, Len(items) - batches[b].start)

\* batched_parmap, given 11 items and no batch_size, has returned after a
\* batch of 10 and a batch of 1.
C15_Witness ==
    /\ entry = "batched_parmap_default"
    /\ pc = "returned"
    /\ Len(items) = 11
    /\ Len(batches) = 2
    /\ batches[1].size = 10
    /\ batches[2].size = 1

\* C19: in the resolution of a token, the exception of a parse_metadata call
\* becomes a MetadataProcessingError candidate and the resolution goes on;
\* the exception of a should_parse_token call or of the selector ends the
\* resolution and is raised to its caller.
C19_OnlyParseFaultsAreCaught ==
    \A j \in Resolved :
        LET cs == CallsOf(j)
            r == inv[j].result
        IN  \A c \in 1..Len(cs) :
                /\ (cs[c].op = "parse_metadata" /\ cs[c].result = "raised") =>
                    /\ ~(r.raised /\ c = Len(cs))
                    /\ \A d \in 1..Len(cs) :
                        cs[d].op = "metadata_selector_fn" =>
                            \E n \in 1..Len(cs[d].cands) :
                                cs[d].cands[n] = CandidateOf(inv[j].arg, cs[c].parser)
                    /\ (c = Len(cs) /\ selector = "None") =>
                        r.value.type = "MetadataProcessingError"
                /\ (cs[c].op \in {"should_parse_token", "metadata_selector_fn"}
                        /\ cs[c].result = "raised") =>
                    /\ c = Len(cs)
                    /\ r.raised
                    /\ r.value.type = "Exception"
                    /\ r.value.parser = cs[c].parser
                    /\ r.value.error = IF cs[c].op = "should_parse_token"
                                       THEN "should_parse_token failed"
                                       ELSE "metadata_selector_fn failed"

\* A token's first parser has failed in parse_metadata and its second has
\* raised in should_parse_token.
C19_Witness ==
    \E j \in Resolved :
        /\ inv[j].arg.uri.content = <<"fail", "check_raises">>
        /\ Len(CallsOf(j)) = 4
        /\ inv[j].result.raised

\* Item j has been handed to the engine: it is in a list parmap was called
\* with, or map has called fn on it.
Dispatched(j) ==
    /\ j \in 1..Len(items)
    /\ \/ inv[j].n > 0
       \/ \E b \in 1..Len(batches) :
            batches[b].start < j /\ j <= batches[b].start + batches[b].size

\* The invocation of fn on item j has returned or raised.
InvocationDone(j) == j \in 1..Len(items) /\ inv[j].fin > 0

\* C17: with the threads scheduled fairly, the call comes back to its caller
\* if and only if every dispatched invocation finishes: it comes back if
\* each of them does, it has not come back while one of them has not; once
\* the invocation that never finishes is dispatched the call never comes back
\* and no further batch is given to parmap.
C17_ReturnsIffAllInvocationsFinish ==
    /\ (\A j \in 1..MaxLiveItems : Dispatched(j) ~> InvocationDone(j)) => <>Finished
    /\ [](Finished => \A j \in 1..MaxLiveItems : Dispatched(j) => InvocationDone(j))
    /\ [](Dispatched(stalled) => [](~Finished))
    /\ [][Dispatched(stalled) => batches' = batches]_vars

\* batched_parmap waits for the invocation that never finishes: every other
\* callable of its batch is done and items of the list are still to be
\* dispatched.
C17_Witness ==
    /\ frame = "batched_parmap"
    /\ pc \in {"collect", "exit"}
    /\ \E j \in 1..Len(futures) :
        /\ futures[j].item = stalled
        /\ futures[j].st = "running"
        /\ \A h \in 1..Len(futures) : h # j => futures[h].st = "done"
    /\ i + batch_size < Len(items)
    /\ \A c \in DOMAIN futures : ~ENABLED WorkerStep(c)
    /\ ~ENABLED CallerStep

====
